---------------------------- MODULE Spec2Model ----------------------------
(***************************************************************************)
(* The upload middleware of src/server/routes.ts (uploadMiddleware): a     *)
(* hand-written multipart/form-data decoder.  A request body arrives as a  *)
(* stream of byte chunks, each chunk is appended to a JavaScript string    *)
(* (data += chunk), and on 'end' the string is split on "--<boundary>",    *)
(* every part is classified as a file or a field, file payloads are        *)
(* written to the uploads directory and the two mappings are handed to the *)
(* next handler as req.body / req.files.                                   *)
(*                                                                         *)
(* Strings are sequences of UTF-16 code units and buffers are sequences of *)
(* bytes, both written as sequences of numbers; the text each literal      *)
(* stands for is given in a comment beside it.                             *)
(***************************************************************************)
EXTENDS Integers, Sequences, FiniteSets, TLC

(***************************************************************************)
(* Bounds of the model.                                                    *)
(***************************************************************************)
\* the largest number of parts a modelled request body carries
MaxParts == 2

(***************************************************************************)
(* String literals of the source.                                          *)
(***************************************************************************)
DashDash == <<45, 45>>                                     \* "--"
CRLF == <<13, 10>>                                         \* "\r\n"
CRLFCRLF == <<13, 10, 13, 10>>                             \* "\r\n\r\n"
DashDashCRLF == <<45, 45, 13, 10>>                         \* "--\r\n"
FilenameEq == <<102, 105, 108, 101, 110, 97, 109, 101, 61>>    \* "filename="
NameEq == <<110, 97, 109, 101, 61>>                        \* "name="
BoundaryEq == <<98, 111, 117, 110, 100, 97, 114, 121, 61>> \* "boundary="
MultipartFormData ==
    <<109, 117, 108, 116, 105, 112, 97, 114, 116, 47, 102, 111, 114, 109,
      45, 100, 97, 116, 97>>                               \* "multipart/form-data"
Quote == <<34>>                                            \* '"'
Semicolon == <<59>>                                        \* ";"
UploadsDir == <<117, 112, 108, 111, 97, 100, 115>>         \* "uploads" (under cwd)
PathSep == <<47>>                                          \* "/"
Dot == <<46>>                                              \* "."

(***************************************************************************)
(* JavaScript string primitives, computed as the runtime computes them.    *)
(* Positions are 1-based here; 0 stands for JavaScript's -1 (not found).   *)
(***************************************************************************)
\* whether pat occurs in s at position i
OccursAt(s, pat, i) ==
    /\ i >= 1
    /\ i + Len(pat) - 1 <= Len(s)
    /\ \A k \in 1..Len(pat) : s[i + k - 1] = pat[k]

\* the positions at which pat occurs in s
Occurrences(s, pat) ==
    {i \in 1..(Len(s) - Len(pat) + 1) :
        \A k \in 1..Len(pat) : s[i + k - 1] = pat[k]}

Min(S) == CHOOSE i \in S : \A j \in S : i <= j
Max(S) == CHOOSE i \in S : \A j \in S : i >= j

\* String.prototype.includes
Includes(s, pat) ==
    \E i \in 1..(Len(s) - Len(pat) + 1) :
        \A k \in 1..Len(pat) : s[i + k - 1] = pat[k]

\* String.prototype.indexOf: the first position of pat in s, 0 when absent
IndexOf(s, pat) ==
    LET occ == Occurrences(s, pat)
    IN  IF occ = {} THEN 0 ELSE Min(occ)

\* String.prototype.lastIndexOf: the last position of pat in s, 0 when absent
LastIndexOf(s, pat) ==
    LET occ == Occurrences(s, pat)
    IN  IF occ = {} THEN 0 ELSE Max(occ)

\* the characters of s from position i (1-based) to the end
From(s, i) == SubSeq(s, i, Len(s))

\* String.prototype.split with a non-empty separator
RECURSIVE Split(_, _)
Split(s, sep) ==
    LET i == IndexOf(s, sep)
    IN  IF i = 0
        THEN <<s>>
        ELSE <<SubSeq(s, 1, i - 1)>> \o Split(From(s, i + Len(sep)), sep)

\* Array.prototype.join
RECURSIVE Join(_, _)
Join(pieces, sep) ==
    IF Len(pieces) = 0 THEN <<>>
    ELSE IF Len(pieces) = 1 THEN pieces[1]
    ELSE pieces[1] \o sep \o Join(Tail(pieces), sep)

\* the code units String.prototype.trim removes (WhiteSpace and LineTerminator)
WhiteSpace ==
    {9, 10, 11, 12, 13, 32, 160, 5760, 8232, 8233, 8239, 8287, 12288, 65279}
        \cup (8192..8202)

\* !part.trim(): the string is empty once its white space is trimmed
TrimsToEmpty(s) == \A i \in 1..Len(s) : s[i] \in WhiteSpace

\* str.match(/<prefix>"([^"]+)"/): the first capture of the leftmost match, or
\* the empty string when there is no match (a capture is never empty)
MatchQuoted(s, prefix) ==
    LET open == prefix \o Quote
        Ok(i) == /\ i + Len(open) <= Len(s)
                 /\ s[i + Len(open)] # Quote[1]
                 /\ Includes(From(s, i + Len(open)), Quote)
        matches == {i \in Occurrences(s, open) : Ok(i)}
    IN  IF matches = {} THEN <<>>
        ELSE LET rest == From(s, Min(matches) + Len(open))
             IN  SubSeq(rest, 1, IndexOf(rest, Quote) - 1)

\* String.prototype.substring(0, end) with end given as a JavaScript index
\* (negative values are taken as 0)
Substring0(s, end) == SubSeq(s, 1, IF end < 0 THEN 0 ELSE end)

(***************************************************************************)
(* Buffer <-> string conversions.                                          *)
(***************************************************************************)
\* Buffer.prototype.toString() (UTF-8 decoding, applied by "data += chunk"):
\* an ASCII byte is itself, a well-formed two-byte sequence is its code
\* point, every other byte becomes U+FFFD.  (Three- and four-byte lead bytes
\* 0xE0..0xF4 are not drawn by this model's inputs.)  A lead byte is never a
\* continuation byte, so byte i is the second byte of a sequence exactly when
\* byte i-1 is a lead byte and byte i a continuation byte.
Utf8Decode(bytes) ==
    LET IsLead(i) == bytes[i] \in 194..223
        IsCont(i) == bytes[i] \in 128..191
        Second(i) == i > 1 /\ IsLead(i - 1) /\ IsCont(i)
        units == [i \in 1..Len(bytes) |->
                    IF Second(i) THEN -1
                    ELSE IF bytes[i] < 128 THEN bytes[i]
                    ELSE IF IsLead(i) /\ i < Len(bytes) /\ IsCont(i + 1)
                    THEN (bytes[i] - 192) * 64 + (bytes[i + 1] - 128)
                    ELSE 65533]
    IN  SelectSeq(units, LAMBDA u : u # -1)

\* Buffer.from(str, 'binary'): the low byte of every code unit
BufferFromBinary(str) == [i \in 1..Len(str) |-> str[i] % 256]

(***************************************************************************)
(* Library calls of the 'end' handler.                                     *)
(***************************************************************************)
\* path.extname (POSIX): the text from the last "." of the last path segment,
\* empty when that segment has no ".", starts with its only ".", or is ".."
RECURSIVE StripTrailingSlashes(_)
StripTrailingSlashes(p) ==
    IF Len(p) > 0 /\ p[Len(p)] = PathSep[1]
    THEN StripTrailingSlashes(SubSeq(p, 1, Len(p) - 1))
    ELSE p

Extname(p) ==
    LET q == StripTrailingSlashes(p)
        base == From(q, LastIndexOf(q, PathSep) + 1)
        dot == LastIndexOf(base, Dot)
    IN  IF dot = 0 \/ dot = 1 \/ base = Dot \o Dot
        THEN <<>>
        ELSE From(base, dot)

\* path.join(uploadsDir, filename); filename is hex digits and an extension,
\* so it has no "/" and no ".." segment and the join only concatenates
PathJoin(dir, filename) == dir \o PathSep \o filename

\* crypto.randomBytes(16).toString('hex'): written here with 2 digits in place
\* of 32.  The generator is taken to be collision-free: a draw is any name of
\* the pool that was not drawn before.
HexName(i) == <<97, 48 + i>>                               \* "a1", "a2", ...
RandHex == {HexName(i) : i \in 1..MaxParts}

(***************************************************************************)
(* The 'end' handler of uploadMiddleware, routes.ts lines 91-152.          *)
(***************************************************************************)
\* req.headers['content-type'].match(/boundary=(?:"([^"]+)"|([^;]+))/), then
\* boundaryMatch[1] || boundaryMatch[2]; the empty string when nothing matches
ExtractBoundary(ct) ==
    LET QuotedAt(i) ==
            LET j == i + Len(BoundaryEq)
            IN  /\ OccursAt(ct, BoundaryEq \o Quote, i)
                /\ j + 1 <= Len(ct)
                /\ ct[j + 1] # Quote[1]
                /\ Includes(From(ct, j + 1), Quote)
        BareAt(i) ==
            LET j == i + Len(BoundaryEq)
            IN  /\ j <= Len(ct)
                /\ ct[j] # Semicolon[1]
        matches == {i \in Occurrences(ct, BoundaryEq) : QuotedAt(i) \/ BareAt(i)}
    IN  IF matches = {} THEN <<>>
        ELSE LET i == Min(matches)
                 j == i + Len(BoundaryEq)
             IN  IF QuotedAt(i)
                 THEN LET rest == From(ct, j + 1)
                      IN  SubSeq(rest, 1, IndexOf(rest, Quote) - 1)
                 ELSE LET rest == From(ct, j)
                      IN  IF Includes(rest, Semicolon)
                          THEN SubSeq(rest, 1, IndexOf(rest, Semicolon) - 1)
                          ELSE rest

\* data.split(`--${boundary}`), line 99
SplitParts(data, boundary) == Split(data, DashDash \o boundary)

\* line 106: the parts the loop skips
SkipPart(part) == TrimsToEmpty(part) \/ Includes(part, DashDashCRLF)

\* line 108: const [headerStr, ...bodyParts] = part.split('\r\n\r\n')
HeaderStr(pieces) == Head(pieces)

\* line 109: bodyParts.join('\r\n\r\n')
BodyContent(pieces) == Join(Tail(pieces), CRLFCRLF)

\* lines 121 and 140: bodyContent.substring(0, bodyContent.lastIndexOf('\r\n'))
StripTerminator(bodyContent) ==
    Substring0(bodyContent, LastIndexOf(bodyContent, CRLF) - 1)

\* line 111: the part is taken as a file
IsFilePart(headerStr) == Includes(headerStr, FilenameEq)

\* line 113: headerStr.match(/filename="([^"]+)"/)
FilenameMatch(headerStr) == MatchQuoted(headerStr, FilenameEq)

\* a variant of line 136 that falls back to the name "n" when nothing matches
NameMatchOrDefault(headerStr) ==
    IF MatchQuoted(headerStr, NameEq) = <<>>
    THEN <<110>>
    ELSE MatchQuoted(headerStr, NameEq)

\* line 136: headerStr.match(/name="([^"]+)"/)
NameMatch(headerStr) == MatchQuoted(headerStr, NameEq)

\* a variant of line 95 that never throws
NoBoundaryNever(boundaryMatch) == FALSE

\* line 95: if (!boundaryMatch) throw new Error('No boundary found')
NoBoundary(boundaryMatch) == boundaryMatch = <<>>

\* line 114: if (filenameMatch)
FileGuard(filenameMatch) == filenameMatch # <<>>

\* a variant of line 137 that stores the field whether or not a name matched
FieldGuardNone(nameMatch) == TRUE

\* line 137: if (nameMatch)
FieldGuard(nameMatch) == nameMatch # <<>>

\* line 117: the generated storage name
StorageName(hex, originalFilename) == hex \o Extname(originalFilename)

\* variants of line 127 that key the record by the generated storage name,
\* or by the part's name attribute
FileKeyByStorageName(name, originalFilename, filename) == filename
FileKeyByName(name, originalFilename, filename) == name

\* line 127: the key under which a file's record is stored
FileKey(name, originalFilename, filename) == originalFilename

\* an own property of a JavaScript object is set: obj[key] = value
SetKey(obj, key, value) == (key :> value) @@ obj

\* What lines 106-141 read off one part, before any effect: whether it is
\* skipped (line 106), a file (lines 111-121), a field (lines 136-140) or
\* ignored (no filename match, or no name match), with the matched names and
\* the content left once the terminator is stripped.
ReadPart(part) ==
    LET pieces == Split(part, CRLFCRLF)
        headerStr == HeaderStr(pieces)
        content == StripTerminator(BodyContent(pieces))
        filenameMatch == FilenameMatch(headerStr)
        nameMatch == NameMatch(headerStr)
        none == [kind |-> "ignored", originalFilename |-> <<>>,
                 name |-> <<>>, content |-> <<>>]
    IN  IF SkipPart(part) THEN [none EXCEPT !.kind = "skipped"]
        ELSE IF IsFilePart(headerStr)
        THEN IF FileGuard(filenameMatch)
             THEN [kind |-> "file", originalFilename |-> filenameMatch,
                   name |-> nameMatch, content |-> content]
             ELSE none
        ELSE IF FieldGuard(nameMatch)
             THEN [kind |-> "field", originalFilename |-> <<>>,
                   name |-> nameMatch, content |-> content]
             ELSE none

\* lines 94-99 and the reads of the loop: the boundary ("found" is FALSE when
\* line 95 throws) and what each part of the split holds
ReadBody(data, ct) ==
    LET boundary == ExtractBoundary(ct)
        parts == SplitParts(data, boundary)
    IN  IF NoBoundary(boundary)
        THEN [found |-> FALSE, parts |-> <<>>]
        ELSE [found |-> TRUE,
              parts |-> [i \in 1..Len(parts) |-> ReadPart(parts[i])]]

\* The effects of one iteration of the loop of lines 105-143 on its state:
\* the two mappings, the uploads directory, the number of files written and
\* whether a statement threw.  rnd[k] is the hex name drawn for the k-th file
\* written; the failAt-th fs.writeFileSync throws (0: none does).
ProcessPart(st, p, rnd, failAt) ==
    IF st.threw THEN st
    ELSE IF p.kind = "file"
    THEN LET filename == StorageName(rnd[st.written + 1], p.originalFilename)
             filepath == PathJoin(UploadsDir, filename)
             buffer == BufferFromBinary(p.content)
         IN  IF st.written + 1 = failAt
             THEN [st EXCEPT !.threw = TRUE]
             ELSE [st EXCEPT
                     !.disk = SetKey(st.disk, filepath, buffer),
                     !.written = st.written + 1,
                     !.files = SetKey(st.files,
                                 FileKey(p.name, p.originalFilename, filename),
                                 [filename |-> filename,
                                  originalFilename |-> p.originalFilename,
                                  size |-> Len(buffer),
                                  path |-> filepath])]
    ELSE IF p.kind = "field"
    THEN [st EXCEPT !.fields = SetKey(st.fields, p.name, p.content)]
    ELSE st

RECURSIVE ProcessParts(_, _, _, _)
ProcessParts(st, parts, rnd, failAt) ==
    IF Len(parts) = 0 THEN st
    ELSE ProcessParts(ProcessPart(st, Head(parts), rnd, failAt),
                      Tail(parts), rnd, failAt)

\* the try block of lines 92-147 run on what ReadBody read
Run(body, disk, rnd, failAt) ==
    LET start == [threw |-> FALSE, fields |-> <<>>, files |-> <<>>,
                  disk |-> disk, written |-> 0]
    IN  IF ~body.found
        THEN [start EXCEPT !.threw = TRUE]
        ELSE ProcessParts(start, body.parts, rnd, failAt)

\* The try block of lines 92-147 as a function of what it reads: the string
\* accumulated from the stream, the Content-Type header, the uploads
\* directory, the random draws and the write that fails.
Decode(data, ct, disk, rnd, failAt) ==
    Run(ReadBody(data, ct), disk, rnd, failAt)

(***************************************************************************)
(* The requests the model sends: multipart bodies as a browser builds      *)
(* them, with boundary XYZ.                                                *)
(***************************************************************************)
ClientBoundary == <<88, 89, 90>>                           \* "XYZ"
DispositionName ==
    <<67, 111, 110, 116, 101, 110, 116, 45, 68, 105, 115, 112, 111, 115,
      105, 116, 105, 111, 110, 58, 32, 102, 111, 114, 109, 45, 100, 97,
      116, 97, 59, 32, 110, 97, 109, 101, 61, 34>>
        \* 'Content-Disposition: form-data; name="'
DispositionFilename ==
    <<34, 59, 32, 102, 105, 108, 101, 110, 97, 109, 101, 61, 34>>
        \* '"; filename="'
ContentTypePdf ==
    <<67, 111, 110, 116, 101, 110, 116, 45, 84, 121, 112, 101, 58, 32, 97,
      112, 112, 108, 105, 99, 97, 116, 105, 111, 110, 47, 112, 100, 102>>
        \* 'Content-Type: application/pdf'
ContentTypeText ==
    <<67, 111, 110, 116, 101, 110, 116, 45, 84, 121, 112, 101, 58, 32, 116,
      101, 120, 116, 47, 112, 108, 97, 105, 110>>
        \* 'Content-Type: text/plain'

NameX == <<120>>                                           \* "x"
NameY == <<121>>                                           \* "y"
NameFile == <<102, 105, 108, 101>>                         \* "file"
DocPdf == <<100, 111, 99, 46, 112, 100, 102>>              \* "doc.pdf"
Notes == <<110, 111, 116, 101, 115>>                       \* "notes"
TextA == <<97>>                                            \* "a"
TextB == <<98>>                                            \* "b"
TextBlankLine == <<97, 13, 10, 13, 10, 98>>                \* "a\r\n\r\nb"
TextDashes == <<97, 45, 45, 13, 10, 98>>                   \* "a--\r\nb"
\* binary content: 0xC3 0xA9 (U+00E9 in UTF-8), "\r\n\r\n", 0xFF
BytesHigh == <<195, 169, 13, 10, 13, 10, 255>>

FieldPart(name, content) ==
    [kind |-> "field", name |-> name, filename |-> <<>>, content |-> content]
FilePart(name, filename, content) ==
    [kind |-> "file", name |-> name, filename |-> filename, content |-> content]
OtherPart(content) ==
    [kind |-> "other", name |-> <<>>, filename |-> <<>>, content |-> content]

\* the parts a modelled body is built from
PartOptions ==
    { FieldPart(NameX, TextA), FieldPart(NameX, TextB),
      FieldPart(NameX, TextDashes), FieldPart(NameY, <<>>),
      FilePart(NameFile, DocPdf, TextA), FilePart(NameX, DocPdf, TextBlankLine),
      FilePart(NameFile, Notes, BytesHigh), FilePart(NameX, Notes, TextDashes),
      OtherPart(TextA) }

\* the header block of a part
PartHeader(p) ==
    IF p.kind = "field" THEN DispositionName \o p.name \o Quote
    ELSE IF p.kind = "file"
    THEN DispositionName \o p.name \o DispositionFilename \o p.filename
             \o Quote \o CRLF \o ContentTypePdf
    ELSE ContentTypeText

\* one part on the wire: delimiter, header block, blank line, content, CRLF
EncodePart(p) ==
    DashDash \o ClientBoundary \o CRLF \o PartHeader(p) \o CRLFCRLF
        \o p.content \o CRLF

RECURSIVE EncodeParts(_)
EncodeParts(parts) ==
    IF Len(parts) = 0 THEN <<>>
    ELSE EncodePart(Head(parts)) \o EncodeParts(Tail(parts))

\* a whole body: the parts, the closing delimiter and, optionally, a CRLF
EncodeForm(form) ==
    EncodeParts(form.parts) \o DashDash \o ClientBoundary \o DashDash
        \o (IF form.finalCRLF THEN CRLF ELSE <<>>)

\* the forms of at most n parts
Forms(n) ==
    [parts : UNION {[1..k -> PartOptions] : k \in 0..n},
     finalCRLF : BOOLEAN]

\* 'multipart/form-data; boundary=XYZ'
ContentTypeBare == MultipartFormData \o <<59, 32>> \o BoundaryEq \o ClientBoundary
\* 'multipart/form-data; boundary="XYZ"'
ContentTypeQuoted ==
    MultipartFormData \o <<59, 32>> \o BoundaryEq \o Quote \o ClientBoundary \o Quote
\* 'multipart/form-data'
ContentTypeNoBoundary == MultipartFormData
\* 'application/json'
ContentTypeJson ==
    <<97, 112, 112, 108, 105, 99, 97, 116, 105, 111, 110, 47, 106, 115, 111, 110>>

\* The requests a run may start from: every form of up to MaxParts parts
\* under the plain multipart header, and the shorter forms under each of the
\* other Content-Type headers.
Inputs ==
    (Forms(MaxParts) \X {ContentTypeBare})
        \cup (Forms(MaxParts - 1)
                \X {ContentTypeQuoted, ContentTypeNoBoundary, ContentTypeJson})

(***************************************************************************)
(* MemStorage (storage.ts).  The store is a record of the four maps and    *)
(* the four counters; a map is a function from its keys to its records,    *)
(* and a record is a function from field names to values.  The names that  *)
(* the code compares through toLowerCase() are sequences of code units,    *)
(* the other strings are kept as they are written in the source.           *)
(***************************************************************************)
\* String.prototype.toLowerCase(): the letters A-Z; the other letters the
\* seeded and the drawn names hold are lower-case already
ToLowerCase(s) == [i \in DOMAIN s |-> IF s[i] \in 65..90 THEN s[i] + 32 ELSE s[i]]

\* A partial record (Partial<User>, InsertUser, ...) is a function from the
\* keys it holds.
\* { ...a, ...b }: the keys of both, b's value where both have the key
Spread(a, b) == b @@ a

\* Map.prototype.delete
MapDelete(map, key) == [k \in DOMAIN map \ {key} |-> map[k]]

\* UserRole and UserStatus, as routes.ts and storage.ts use them
RoleAdmin == "ADMIN"
RoleSemiAdmin == "SEMI_ADMIN"
RoleUser == "USER"
StatusActive == "active"
StatusDisabled == "disabled"

TudorCh == <<84, 117, 100, 111, 114, 67, 104>>
IrinaR == <<73, 114, 105, 110, 97, 82>>
AdeliU == <<65, 100, 101, 108, 105, 85>>
Examen2025 == <<69, 120, 97, 109, 101, 110, 50, 48, 50, 53>>

\* the departments that initializeDefaultData creates, in order
DefaultDepartments ==
    <<[name |-> <<67, 97, 114, 100, 105, 111, 108, 111, 103, 105, 101>>,
       \* "Cardiologie"
       slug |-> <<99, 97, 114, 100, 105, 111, 108, 111, 103, 105, 101>>,
       icon |-> "Heart", color |-> "#ef4444"],
      [name |-> <<67, 104, 105, 114, 117, 114, 103, 105, 101, 32, 112, 101, 100, 105, 97, 116, 114, 105, 99, 259>>,
       \* "Chirurgie pediatric\u0103"
       slug |-> <<99, 104, 105, 114, 117, 114, 103, 105, 101, 45, 112, 101, 100, 105, 97, 116, 114, 105, 99, 97>>,
       icon |-> "Baby", color |-> "#f97316"],
      [name |-> <<67, 104, 105, 114, 117, 114, 103, 105, 101, 32, 103, 101, 110, 101, 114, 97, 108, 259, 32, 115, 101, 109, 105, 111, 108, 111, 103, 105, 101, 32, 40, 110, 114, 46, 51, 41>>,
       \* "Chirurgie general\u0103 semiologie (nr.3)"
       slug |-> <<99, 104, 105, 114, 117, 114, 103, 105, 101, 45, 103, 101, 110, 101, 114, 97, 108, 97, 45, 115, 101, 109, 105, 111, 108, 111, 103, 105, 101>>,
       icon |-> "Syringe", color |-> "#f59e0b"],
      [name |-> <<67, 104, 105, 114, 117, 114, 103, 105, 101, 32, 110, 114, 46, 49>>,
       \* "Chirurgie nr.1"
       slug |-> <<99, 104, 105, 114, 117, 114, 103, 105, 101, 45, 49>>,
       icon |-> "Scissors", color |-> "#84cc16"],
      [name |-> <<67, 104, 105, 114, 117, 114, 103, 105, 101, 32, 110, 114, 46, 50>>,
       \* "Chirurgie nr.2"
       slug |-> <<99, 104, 105, 114, 117, 114, 103, 105, 101, 45, 50>>,
       icon |-> "Scalpel", color |-> "#10b981"],
      [name |-> <<71, 97, 115, 116, 114, 111, 101, 110, 116, 101, 114, 111, 108, 111, 103, 105, 101>>,
       \* "Gastroenterologie"
       slug |-> <<103, 97, 115, 116, 114, 111, 101, 110, 116, 101, 114, 111, 108, 111, 103, 105, 101>>,
       icon |-> "Stomach", color |-> "#06b6d4"],
      [name |-> <<78, 101, 102, 114, 111, 108, 111, 103, 105, 101>>,
       \* "Nefrologie"
       slug |-> <<110, 101, 102, 114, 111, 108, 111, 103, 105, 101>>,
       icon |-> "Kidney", color |-> "#3b82f6"],
      [name |-> <<79, 98, 115, 116, 101, 116, 114, 105, 99, 259, 32, 537, 105, 32, 103, 105, 110, 101, 99, 111, 108, 111, 103, 105, 101>>,
       \* "Obstetric\u0103 \u0219i ginecologie"
       slug |-> <<111, 98, 115, 116, 101, 116, 114, 105, 99, 97, 45, 103, 105, 110, 101, 99, 111, 108, 111, 103, 105, 101>>,
       icon |-> "Stethoscope", color |-> "#8b5cf6"],
      [name |-> <<80, 101, 100, 105, 97, 116, 114, 105, 101>>,
       \* "Pediatrie"
       slug |-> <<112, 101, 100, 105, 97, 116, 114, 105, 101>>,
       icon |-> "BabyBottle", color |-> "#d946ef"],
      [name |-> <<80, 110, 101, 117, 109, 111, 108, 111, 103, 105, 101>>,
       \* "Pneumologie"
       slug |-> <<112, 110, 101, 117, 109, 111, 108, 111, 103, 105, 101>>,
       icon |-> "Lungs", color |-> "#ec4899"],
      [name |-> <<82, 101, 117, 109, 97, 116, 111, 108, 111, 103, 105, 101>>,
       \* "Reumatologie"
       slug |-> <<114, 101, 117, 109, 97, 116, 111, 108, 111, 103, 105, 101>>,
       icon |-> "Bone", color |-> "#f43f5e"],
      [name |-> <<84, 111, 97, 116, 101, 32, 116, 101, 115, 116, 101, 108, 101>>,
       \* "Toate testele"
       slug |-> <<116, 111, 97, 116, 101, 45, 116, 101, 115, 116, 101, 108, 101>>,
       icon |-> "FileText", color |-> "#64748b"]>>

\* Map.prototype.set
MapSet(map, key, value) == (key :> value) @@ map

\* the store before initializeDefaultData
EmptyStore ==
    [users |-> <<>>, departments |-> <<>>, resources |-> <<>>, pdfs |-> <<>>,
     userId |-> 1, departmentId |-> 1, resourceId |-> 1, pdfId |-> 1]

\* new Date(): the time of the call is not modelled
Now == "now"

\* getUser, getDepartment, getResource, getPdf: Map.prototype.get, with
\* "found" FALSE for undefined
MapGet(map, id) ==
    IF id \in DOMAIN map THEN [found |-> TRUE, value |-> map[id]]
    ELSE [found |-> FALSE]

GetUser(st, id) == MapGet(st.users, id)

GetUserByUsername(st, username) ==
    LET hits == {k \in DOMAIN st.users :
                    ToLowerCase(st.users[k].username) = ToLowerCase(username)}
    IN  IF hits = {} THEN [found |-> FALSE]
        ELSE [found |-> TRUE, value |-> st.users[Min(hits)]]

CreateUser(st, userData) ==
    LET id == st.userId
        user == Spread(userData, [id |-> id])
    IN  [store |-> [st EXCEPT !.userId = id + 1, !.users = MapSet(@, id, user)],
         value |-> user]

UpdateUser(st, id, userData) ==
    IF ~GetUser(st, id).found THEN [store |-> st, found |-> FALSE]
    ELSE LET updatedUser == Spread(st.users[id], userData)
         IN  [store |-> [st EXCEPT !.users = MapSet(@, id, updatedUser)],
              found |-> TRUE, value |-> updatedUser]

DeleteUser(st, id) ==
    [store |-> [st EXCEPT !.users = MapDelete(@, id)],
     value |-> id \in DOMAIN st.users]

GetDepartment(st, id) == MapGet(st.departments, id)

GetDepartmentBySlug(st, slug) ==
    LET hits == {k \in DOMAIN st.departments : st.departments[k].slug = slug}
    IN  IF hits = {} THEN [found |-> FALSE]
        ELSE [found |-> TRUE, value |-> st.departments[Min(hits)]]

CreateDepartment(st, departmentData) ==
    LET id == st.departmentId
        department == Spread(departmentData, [id |-> id])
    IN  [store |-> [st EXCEPT !.departmentId = id + 1,
                              !.departments = MapSet(@, id, department)],
         value |-> department]

UpdateDepartment(st, id, departmentData) ==
    IF ~GetDepartment(st, id).found THEN [store |-> st, found |-> FALSE]
    ELSE LET updatedDepartment == Spread(st.departments[id], departmentData)
         IN  [store |-> [st EXCEPT !.departments = MapSet(@, id, updatedDepartment)],
              found |-> TRUE, value |-> updatedDepartment]

GetResource(st, id) == MapGet(st.resources, id)

CreateResource(st, resourceData) ==
    LET id == st.resourceId
        resource == Spread(resourceData, [id |-> id, createdAt |-> Now])
    IN  [store |-> [st EXCEPT !.resourceId = id + 1,
                              !.resources = MapSet(@, id, resource)],
         value |-> resource]

\* the records of the department, as an array in insertion order would hold
\* them: the keys under which they are stored
GetResourcesByDepartment(st, departmentId) ==
    {k \in DOMAIN st.resources : st.resources[k].departmentId = departmentId}

UpdateResource(st, id, resourceData) ==
    IF ~GetResource(st, id).found THEN [store |-> st, found |-> FALSE]
    ELSE LET updatedResource == Spread(st.resources[id], resourceData)
         IN  [store |-> [st EXCEPT !.resources = MapSet(@, id, updatedResource)],
              found |-> TRUE, value |-> updatedResource]

DeleteResource(st, id) ==
    [store |-> [st EXCEPT !.resources = MapDelete(@, id)],
     value |-> id \in DOMAIN st.resources]

GetPdf(st, id) == MapGet(st.pdfs, id)

\* null, kept apart from every string
Null == <<-1>>

\* data[key] || other: other when the value is absent, null or empty
OrElse(data, key, other) ==
    IF key \in DOMAIN data /\ data[key] # Null /\ data[key] # <<>>
    THEN data[key] ELSE other

CreatePdf(st, pdfData) ==
    LET id == st.pdfId
        pdf == Spread(pdfData,
                      [name |-> OrElse(pdfData, "name", pdfData.originalFilename),
                       description |-> OrElse(pdfData, "description", Null),
                       id |-> id, uploadedAt |-> Now])
    IN  [store |-> [st EXCEPT !.pdfId = id + 1, !.pdfs = MapSet(@, id, pdf)],
         value |-> pdf]

GetPdfsByDepartment(st, departmentId) ==
    {k \in DOMAIN st.pdfs : st.pdfs[k].departmentId = departmentId}

DeletePdf(st, id) ==
    [store |-> [st EXCEPT !.pdfs = MapDelete(@, id)],
     value |-> id \in DOMAIN st.pdfs]

\* deleteDepartment: the resources and pdfs found for the department are
\* deleted by the id field of their records, then the department by its key
DeleteDepartment(st, id) ==
    LET resourcesToDelete == {st.resources[k].id : k \in GetResourcesByDepartment(st, id)}
        pdfsToDelete == {st.pdfs[k].id : k \in GetPdfsByDepartment(st, id)}
    IN  [store |-> [st EXCEPT
                      !.resources = [k \in DOMAIN @ \ resourcesToDelete |-> @[k]],
                      !.pdfs = [k \in DOMAIN @ \ pdfsToDelete |-> @[k]],
                      !.departments = MapDelete(@, id)],
         value |-> id \in DOMAIN st.departments]

\* the users that initializeDefaultData creates, in order
DefaultUsers ==
    <<[username |-> TudorCh, password |-> "Examen", role |-> RoleAdmin,
       status |-> StatusActive],
      [username |-> IrinaR, password |-> "Examen", role |-> RoleUser,
       status |-> StatusActive],
      [username |-> AdeliU, password |-> "Examen", role |-> RoleUser,
       status |-> StatusActive],
      [username |-> Examen2025, password |-> "Examen", role |-> RoleUser,
       status |-> StatusActive]>>

Cardiologie == <<99, 97, 114, 100, 105, 111, 108, 111, 103, 105, 101>>

\* the sample resources and pdfs of the department found under "cardiologie"
DefaultResources(departmentId) ==
    <<[title |-> "Cardiologie 1-50",
       url |-> "https://example.com/cardiologie/1-50",
       departmentId |-> departmentId, createdById |-> 1],
      [title |-> "Cardiologie 51-100",
       url |-> "https://example.com/cardiologie/51-100",
       departmentId |-> departmentId, createdById |-> 1],
      [title |-> "Cardiologie 101-150",
       url |-> "https://example.com/cardiologie/101-150",
       departmentId |-> departmentId, createdById |-> 1],
      [title |-> "Cardiologie 151-200",
       url |-> "https://example.com/cardiologie/151-200",
       departmentId |-> departmentId, createdById |-> 1]>>

DefaultPdfs(departmentId) ==
    <<[name |->
          <<71, 104, 105, 100, 32, 100, 101, 32, 112, 114, 97, 99, 116, 105,
          99, 259, 32, 99, 108, 105, 110, 105, 99, 259, 32, 238, 110, 32,
          99, 97, 114, 100, 105, 111, 108, 111, 103, 105, 101, 32, 50, 48,
          50, 53>>,
       description |->
          <<71, 104, 105, 100, 117, 108, 32, 111, 102, 105, 99, 105, 97,
          108, 32, 112, 101, 110, 116, 114, 117, 32, 112, 114, 97, 99, 116,
          105, 99, 97, 32, 99, 108, 105, 110, 105, 99, 259, 32, 99, 117, 32,
          99, 101, 108, 101, 32, 109, 97, 105, 32, 114, 101, 99, 101, 110,
          116, 101, 32, 114, 101, 99, 111, 109, 97, 110, 100, 259, 114,
          105>>,
       filename |->
          <<99, 97, 114, 100, 105, 111, 108, 111, 103, 105, 101, 95, 103,
          117, 105, 100, 101, 95, 50, 48, 50, 53, 46, 112, 100, 102>>,
       originalFilename |->
          <<71, 104, 105, 100, 32, 100, 101, 32, 112, 114, 97, 99, 116, 105,
          99, 259, 32, 99, 108, 105, 110, 105, 99, 259, 32, 238, 110, 32,
          99, 97, 114, 100, 105, 111, 108, 111, 103, 105, 101, 32, 50, 48,
          50, 53, 46, 112, 100, 102>>,
       size |-> 15000000, departmentId |-> departmentId, uploadedById |-> 1],
      [name |->
          <<65, 108, 103, 111, 114, 105, 116, 109, 105, 32, 112, 101, 110,
          116, 114, 117, 32, 105, 110, 116, 101, 114, 112, 114, 101, 116,
          97, 114, 101, 97, 32, 69, 75, 71>>,
       description |->
          <<67, 111, 108, 101, 99, 539, 105, 101, 32, 100, 101, 32, 97, 108,
          103, 111, 114, 105, 116, 109, 105, 32, 100, 105, 97, 103, 110,
          111, 115, 116, 105, 99, 105, 32, 112, 101, 110, 116, 114, 117, 32,
          105, 110, 116, 101, 114, 112, 114, 101, 116, 97, 114, 101, 97, 32,
          101, 108, 101, 99, 116, 114, 111, 99, 97, 114, 100, 105, 111, 103,
          114, 97, 109, 101, 108, 111, 114>>,
       filename |->
          <<101, 107, 103, 95, 97, 108, 103, 111, 114, 105, 116, 104, 109,
          115, 46, 112, 100, 102>>,
       originalFilename |->
          <<65, 108, 103, 111, 114, 105, 116, 109, 105, 32, 112, 101, 110,
          116, 114, 117, 32, 69, 75, 71, 32, 105, 110, 116, 101, 114, 112,
          114, 101, 116, 97, 114, 101, 46, 112, 100, 102>>,
       size |-> 8000000, departmentId |-> departmentId, uploadedById |-> 1]>>

\* departments.forEach(dept => this.createDepartment(dept)), and the like
RECURSIVE CreateUsers(_, _)
CreateUsers(st, items) ==
    IF Len(items) = 0 THEN st
    ELSE CreateUsers(CreateUser(st, Head(items)).store, Tail(items))

RECURSIVE CreateDepartments(_, _)
CreateDepartments(st, items) ==
    IF Len(items) = 0 THEN st
    ELSE CreateDepartments(CreateDepartment(st, Head(items)).store, Tail(items))

RECURSIVE CreateResources(_, _)
CreateResources(st, items) ==
    IF Len(items) = 0 THEN st
    ELSE CreateResources(CreateResource(st, Head(items)).store, Tail(items))

RECURSIVE CreatePdfs(_, _)
CreatePdfs(st, items) ==
    IF Len(items) = 0 THEN st
    ELSE CreatePdfs(CreatePdf(st, Head(items)).store, Tail(items))

\* the store after the constructor: initializeDefaultData
SeededStore ==
    LET withUsers == CreateUsers(EmptyStore, DefaultUsers)
        withDepartments == CreateDepartments(withUsers, DefaultDepartments)
        cardiologyDept == GetDepartmentBySlug(withDepartments, Cardiologie)
    IN  IF cardiologyDept.found
        THEN CreatePdfs(CreateResources(withDepartments,
                                        DefaultResources(cardiologyDept.value.id)),
                        DefaultPdfs(cardiologyDept.value.id))
        ELSE withDepartments

(***************************************************************************)
(* State.  Every request has its own closure of uploadMiddleware; the      *)
(* uploads directory is shared.                                            *)
(***************************************************************************)
VARIABLES
    sent,         \* sent[r]: the form the client of request r encoded
    contentType,  \* contentType[r]: req.headers['content-type']
    wire,         \* wire[r]: the bytes of the body that have not arrived yet
    data,         \* data[r]: the closure's string "data"
    pc,           \* pc[r]: "start", "receiving" (listeners registered),
                  \*        "passed" (next() was called), "caught" (line 148)
    reqBody,      \* reqBody[r]: req.body, [set |-> FALSE] while unassigned
    reqFiles,     \* reqFiles[r]: req.files, [set |-> FALSE] while unassigned
    responses,    \* responses[r]: the status codes sent on res, in order
    nextCalls,    \* nextCalls[r]: how many times next() was invoked
    uploads       \* the uploads directory: path -> bytes of the file

\* The store, the sessions and what the requests carry besides their body.
VARIABLES
    store,        \* the MemStorage instance: its four maps and four counters
    sessions,     \* sessions[s]: req.session.userId of session s, 0 when unset
    reqSession,   \* reqSession[r]: the session request r came with
    reqUser,      \* reqUser[r]: req.user, set by isAuthenticated
    lastCall,     \* the last call or request answered, with what it returned
    issued        \* issued[kind]: the ids the creates of a kind have returned

uploadVars == <<sent, contentType, wire, data, pc, reqBody, reqFiles,
                responses, nextCalls, uploads>>

storeVars == <<store, sessions, reqSession, reqUser, lastCall, issued>>

vars == <<uploadVars, storeVars>>

\* the sessions of the modelled clients
Sessions == {1, 2}

\* req.user before isAuthenticated has set it
NoUser == [found |-> FALSE]

\* the store after construction, nobody logged in, nothing called yet
StoreInit(ids) ==
    /\ store = SeededStore
    /\ sessions = [s \in Sessions |-> 0]
    /\ reqSession = [r \in ids |-> 1]
    /\ reqUser = [r \in ids |-> NoUser]
    /\ lastCall = [op |-> "none", n |-> 0]
    /\ issued = [users |-> DOMAIN SeededStore.users,
                 departments |-> DOMAIN SeededStore.departments,
                 resources |-> DOMAIN SeededStore.resources,
                 pdfs |-> DOMAIN SeededStore.pdfs]

Requests == DOMAIN pc

Unassigned == [set |-> FALSE, value |-> <<>>]
Assigned(v) == [set |-> TRUE, value |-> v]

\* the state after registerRoutes, with the requests of ids about to be handled
InitFrom(ids, inputs) ==
    /\ \E input \in [ids -> inputs] :
          /\ sent = [r \in ids |-> input[r][1]]
          /\ contentType = [r \in ids |-> input[r][2]]
    /\ wire = [r \in ids |-> EncodeForm(sent[r])]
    /\ data = [r \in ids |-> <<>>]
    /\ pc = [r \in ids |-> "start"]
    /\ reqBody = [r \in ids |-> Unassigned]
    /\ reqFiles = [r \in ids |-> Unassigned]
    /\ responses = [r \in ids |-> <<>>]
    /\ nextCalls = [r \in ids |-> 0]
    /\ uploads = <<>>
    /\ StoreInit(ids)

InitWith(ids) == InitFrom(ids, Inputs)

Init == InitWith({1})

\* The requests of a run with two uploads in flight: one part each, under the
\* plain multipart header.  Two requests may carry the same filename.
ConcurrentInputs ==
    {in \in Inputs : /\ in[2] = ContentTypeBare
                     /\ Len(in[1].parts) = 1
                     /\ in[1].finalCRLF}

\* contents that hold the delimiter: the part that data.split cuts out of
\* them has a body block without a terminator at its end
TextCutAfterLine == <<97, 13, 10, 98>> \o DashDash \o ClientBoundary  \* "a\r\nb--XYZ"
TextCutNoLine == <<98>> \o DashDash \o ClientBoundary                \* "b--XYZ"

\* the forms of at most n parts drawn from options
FormsOver(options, n) ==
    [parts : UNION {[1..k -> options] : k \in 0..n},
     finalCRLF : BOOLEAN]

\* The requests of a run whose parts need not end in a terminator.
UnterminatedInputs ==
    FormsOver({ FieldPart(NameX, TextA), FieldPart(NameY, <<>>),
                FieldPart(NameX, TextCutAfterLine),
                FieldPart(NameY, TextCutNoLine),
                FilePart(NameFile, DocPdf, TextBlankLine),
                FilePart(NameFile, Notes, TextCutAfterLine) }, MaxParts)
        \X {ContentTypeBare}

InitUnterminated == InitFrom({1}, UnterminatedInputs)

\* two requests reach uploadMiddleware before either has ended
InitConcurrent == InitFrom({1, 2}, ConcurrentInputs)

\* lines 81-90: the synchronous part of uploadMiddleware
UploadMiddleware(r) ==
    /\ pc[r] = "start"
    /\ IF ~Includes(contentType[r], MultipartFormData)
       THEN /\ nextCalls' = [nextCalls EXCEPT ![r] = @ + 1]
            /\ pc' = [pc EXCEPT ![r] = "passed"]
       ELSE /\ pc' = [pc EXCEPT ![r] = "receiving"]
            /\ UNCHANGED nextCalls
    /\ UNCHANGED <<sent, contentType, wire, data, reqBody, reqFiles,
                   responses, uploads>>

\* The lengths the next chunk may have.  A cut between two ASCII bytes leaves
\* the accumulated string the same as no cut, so only the cuts after a
\* non-ASCII byte (inside or after a multi-byte sequence) are kept apart from
\* delivering all that remains.
ChunkLens(w) == {Len(w)} \cup {n \in 1..Len(w) : w[n] >= 128}

\* a variant in which data is one string shared by all the requests
OnDataShared(r) ==
    /\ pc[r] = "receiving"
    /\ Len(wire[r]) > 0
    /\ \E n \in ChunkLens(wire[r]) :
          /\ data' = [q \in Requests |->
                         data[q] \o Utf8Decode(SubSeq(wire[r], 1, n))]
          /\ wire' = [wire EXCEPT ![r] = From(@, n + 1)]
    /\ UNCHANGED <<sent, contentType, pc, reqBody, reqFiles, responses,
                   nextCalls, uploads>>

\* lines 87-89: req.on('data', chunk => { data += chunk })
OnData(r) ==
    /\ pc[r] = "receiving"
    /\ Len(wire[r]) > 0
    /\ \E n \in ChunkLens(wire[r]) :
          /\ data' = [data EXCEPT ![r] = @ \o Utf8Decode(SubSeq(wire[r], 1, n))]
          /\ wire' = [wire EXCEPT ![r] = From(@, n + 1)]
    /\ UNCHANGED <<sent, contentType, pc, reqBody, reqFiles, responses,
                   nextCalls, uploads>>

\* the draws of n random names: sequences without repetition of names that
\* are not in the uploads directory
Draws(disk, n) ==
    {rnd \in [1..n -> RandHex] :
        /\ \A i, j \in 1..n : rnd[i] = rnd[j] => i = j
        /\ \A i \in 1..n, f \in DOMAIN disk : ~Includes(f, PathSep \o rnd[i])}

\* the number of files the loop writes when no write fails
NumWrites(body) == Cardinality({i \in DOMAIN body.parts : body.parts[i].kind = "file"})

\* a variant that assigns req.body whether or not the try block threw
ReqBodyEager(res, old) == Assigned(res.fields)

\* lines 145-146 against the catch of line 148: req.body and req.files are
\* assigned only when the try block reaches its end
ReqBodyAfter(res, old) == IF res.threw THEN old ELSE Assigned(res.fields)
ReqFilesAfter(res, old) == IF res.threw THEN old ELSE Assigned(res.files)

\* lines 91-152: req.on('end', ...)
OnEnd(r) ==
    /\ pc[r] = "receiving"
    /\ Len(wire[r]) = 0
    /\ LET body == ReadBody(data[r], contentType[r])
           n == NumWrites(body)
       IN  \E rnd \in Draws(uploads, n), failAt \in 0..n :
              LET res == Run(body, uploads, rnd, failAt)
              IN  /\ uploads' = res.disk
                  /\ reqBody' = [reqBody EXCEPT ![r] = ReqBodyAfter(res, @)]
                  /\ reqFiles' = [reqFiles EXCEPT ![r] = ReqFilesAfter(res, @)]
                  /\ IF res.threw
                     THEN /\ responses' = [responses EXCEPT ![r] = Append(@, 400)]
                          /\ pc' = [pc EXCEPT ![r] = "caught"]
                          /\ UNCHANGED nextCalls
                     ELSE /\ nextCalls' = [nextCalls EXCEPT ![r] = @ + 1]
                          /\ pc' = [pc EXCEPT ![r] = "passed"]
                          /\ UNCHANGED responses
    /\ UNCHANGED <<sent, contentType, wire, data>>

Next ==
    \/ \E r \in Requests : UploadMiddleware(r) /\ UNCHANGED storeVars
    \/ \E r \in Requests : OnData(r) /\ UNCHANGED storeVars
    \/ \E r \in Requests : OnEnd(r) /\ UNCHANGED storeVars

Spec == Init /\ [][Next]_vars

\* one upload whose parts need not end in a terminator
SpecUnterminated == InitUnterminated /\ [][Next]_vars

\* two uploads whose events interleave in any order
SpecConcurrent == InitConcurrent /\ [][Next]_vars

(***************************************************************************)
(* The methods of MemStorage called in any order, with arguments of their  *)
(* declared types: an id that may or may not be a key, an Insert record, a *)
(* Partial record (which may carry any field of the record, id included).  *)
(***************************************************************************)
\* how many calls a run makes after construction
MaxCalls == 3

NewName == <<78, 111, 117>>                                  \* "Nou"
NewSlug == <<110, 111, 117>>                                 \* "nou"

InsertUserOptions ==
    {[username |-> NewName, password |-> "Examen", role |-> RoleSemiAdmin,
      status |-> StatusActive]}
PartialUserOptions == {[role |-> RoleUser], [id |-> 2]}

InsertDepartmentOptions ==
    {[name |-> NewName, slug |-> NewSlug, icon |-> "Heart", color |-> "#ef4444"]}
PartialDepartmentOptions == {[name |-> NewName]}

InsertResourceOptions ==
    {[title |-> "Nou", url |-> "https://example.com/nou", departmentId |-> d,
      createdById |-> 1] : d \in {1, 2}}
PartialResourceOptions == {[departmentId |-> 2], [id |-> 2]}

InsertPdfOptions ==
    {[name |-> NewName, description |-> Null, filename |-> NewSlug,
      originalFilename |-> NewName, size |-> 1, departmentId |-> 2,
      uploadedById |-> 1]}

\* the ids a call is made with: the first two keys, the key created last and
\* an id that is no key yet
CallIds(counter) == {1, 2, counter - 1, counter}

\* a method was called: the store it leaves and what it returned
Called(res, call, ids) ==
    /\ lastCall.n < MaxCalls
    /\ store' = res.store
    /\ lastCall' = call @@ [n |-> lastCall.n + 1]
    /\ issued' = ids
    /\ UNCHANGED <<uploadVars, sessions, reqSession, reqUser>>

CallCreateUser(userData) ==
    LET res == CreateUser(store, userData)
    IN  Called(res, [op |-> "createUser", kind |-> "users", value |-> res.value],
                  [issued EXCEPT !.users = @ \cup {res.value.id}])

CallUpdateUser(id, userData) ==
    LET res == UpdateUser(store, id, userData)
    IN  Called(res, [op |-> "updateUser", id |-> id, found |-> res.found], issued)

CallDeleteUser(id) ==
    LET res == DeleteUser(store, id)
    IN  Called(res, [op |-> "deleteUser", id |-> id, value |-> res.value], issued)

CallCreateDepartment(departmentData) ==
    LET res == CreateDepartment(store, departmentData)
    IN  Called(res, [op |-> "createDepartment", kind |-> "departments",
                        value |-> res.value],
                  [issued EXCEPT !.departments = @ \cup {res.value.id}])

CallUpdateDepartment(id, departmentData) ==
    LET res == UpdateDepartment(store, id, departmentData)
    IN  Called(res, [op |-> "updateDepartment", id |-> id, found |-> res.found],
               issued)

CallDeleteDepartment(id) ==
    LET res == DeleteDepartment(store, id)
    IN  Called(res, [op |-> "deleteDepartment", id |-> id, value |-> res.value],
               issued)

CallCreateResource(resourceData) ==
    LET res == CreateResource(store, resourceData)
    IN  Called(res, [op |-> "createResource", kind |-> "resources",
                        value |-> res.value],
                  [issued EXCEPT !.resources = @ \cup {res.value.id}])

CallUpdateResource(id, resourceData) ==
    LET res == UpdateResource(store, id, resourceData)
    IN  Called(res, [op |-> "updateResource", id |-> id, found |-> res.found],
               issued)

CallDeleteResource(id) ==
    LET res == DeleteResource(store, id)
    IN  Called(res, [op |-> "deleteResource", id |-> id, value |-> res.value],
               issued)

CallCreatePdf(pdfData) ==
    LET res == CreatePdf(store, pdfData)
    IN  Called(res, [op |-> "createPdf", kind |-> "pdfs", value |-> res.value],
                  [issued EXCEPT !.pdfs = @ \cup {res.value.id}])

CallDeletePdf(id) ==
    LET res == DeletePdf(store, id)
    IN  Called(res, [op |-> "deletePdf", id |-> id, value |-> res.value], issued)

NextStorage ==
    \/ \E d \in InsertUserOptions : CallCreateUser(d)
    \/ \E id \in CallIds(store.userId), d \in PartialUserOptions :
          CallUpdateUser(id, d)
    \/ \E id \in CallIds(store.userId) : CallDeleteUser(id)
    \/ \E d \in InsertDepartmentOptions : CallCreateDepartment(d)
    \/ \E id \in CallIds(store.departmentId), d \in PartialDepartmentOptions :
          CallUpdateDepartment(id, d)
    \/ \E id \in CallIds(store.departmentId) : CallDeleteDepartment(id)
    \/ \E d \in InsertResourceOptions : CallCreateResource(d)
    \/ \E id \in CallIds(store.resourceId), d \in PartialResourceOptions :
          CallUpdateResource(id, d)
    \/ \E id \in CallIds(store.resourceId) : CallDeleteResource(id)
    \/ \E d \in InsertPdfOptions : CallCreatePdf(d)
    \/ \E id \in CallIds(store.pdfId) : CallDeletePdf(id)

\* no request in flight: the store as constructed
InitStorage == InitFrom({}, Inputs)

SpecStorage == InitStorage /\ [][NextStorage]_vars

(***************************************************************************)
(* The routes (routes.ts).  A request that does not upload is handled in   *)
(* one step: its middlewares and its handler only await methods of         *)
(* MemStorage, which resolve without leaving the event loop's turn, so no  *)
(* other request is handled in between.                                    *)
(***************************************************************************)
\* a variant that does not look at the status of the user
IsAuthenticatedAnyStatus(st, userId) ==
    IF userId = 0 THEN [status |-> 401, user |-> NoUser]
    ELSE LET user == GetUser(st, userId)
         IN  IF ~user.found THEN [status |-> 401, user |-> NoUser]
             ELSE [status |-> 0, user |-> user]

\* lines 47-62: isAuthenticated.  status 0 stands for next()
IsAuthenticated(st, userId) ==
    IF userId = 0 THEN [status |-> 401, user |-> NoUser]
    ELSE LET user == GetUser(st, userId)
         IN  IF ~user.found THEN [status |-> 401, user |-> NoUser]
             ELSE IF user.value.status # StatusActive
             THEN [status |-> 403, user |-> NoUser]
             ELSE [status |-> 0, user |-> user]

\* lines 65-70: isAdmin
IsAdmin(user) == IF user.value.role # RoleAdmin THEN 403 ELSE 0

\* lines 73-78: isAdminOrSemiAdmin
IsAdminOrSemiAdmin(user) ==
    IF user.value.role # RoleAdmin /\ user.value.role # RoleSemiAdmin
    THEN 403 ELSE 0

\* the middlewares in front of a handler: the status the chain answers with,
\* 0 with req.user when the handler is reached
Guarded(st, userId, roleCheck) ==
    LET auth == IsAuthenticated(st, userId)
        role == IF ~auth.user.found THEN 0
                ELSE IF roleCheck = "isAdmin" THEN IsAdmin(auth.user)
                ELSE IsAdminOrSemiAdmin(auth.user)
    IN  IF auth.status # 0 THEN auth
        ELSE IF role # 0 THEN [status |-> role, user |-> auth.user]
        ELSE auth

\* The schemas of @shared/schema: parse() keeps the keys of the schema and
\* drops the others; it fails when a required key is missing.  partial()
\* requires no key.
UserKeys == {"username", "password", "role", "status"}
DepartmentKeys == {"name", "slug", "icon", "color"}
ResourceKeys == {"title", "url", "departmentId", "createdById"}

SchemaParse(body, keys, required) ==
    IF required \subseteq DOMAIN body
    THEN [ok |-> TRUE, data |-> [k \in DOMAIN body \cap keys |-> body[k]]]
    ELSE [ok |-> FALSE]

\* parsed[key] is truthy: a string that is not empty, a number that is not 0
TruthyString(parsed, key) == key \in DOMAIN parsed /\ parsed[key] # <<>>
TruthyNumber(parsed, key) == key \in DOMAIN parsed /\ parsed[key] # 0

\* a request was answered: the status sent and the store it leaves
Answered(route, s, status, st, ids) ==
    /\ lastCall.n < MaxCalls
    /\ store' = st
    /\ lastCall' = [op |-> route, session |-> s, status |-> status,
                    n |-> lastCall.n + 1]
    /\ issued' = ids

\* lines 156-181: POST /auth/login
PostLogin(s, username, password) ==
    LET user == GetUserByUsername(store, username)
        status == IF username = <<>> \/ password = "" THEN 400
                  ELSE IF ~user.found THEN 401
                  ELSE IF user.value.password # password THEN 401
                  ELSE IF user.value.status # StatusActive THEN 403
                  ELSE 200
    IN  /\ Answered("POST /auth/login", s, status, store, issued)
        /\ sessions' = IF status = 200
                       THEN [sessions EXCEPT ![s] = user.value.id]
                       ELSE sessions
        /\ UNCHANGED <<uploadVars, reqSession, reqUser>>

\* lines 183-190: POST /auth/logout
PostLogout(s) ==
    /\ Answered("POST /auth/logout", s, 200, store, issued)
    /\ sessions' = [sessions EXCEPT ![s] = 0]
    /\ UNCHANGED <<uploadVars, reqSession, reqUser>>

\* lines 207-223: POST /users, the handler
PostUsersHandler(st, body) ==
    LET userData == SchemaParse(body, UserKeys, UserKeys)
    IN  IF ~userData.ok THEN [status |-> 400, store |-> st]
        ELSE IF GetUserByUsername(st, userData.data.username).found
        THEN [status |-> 409, store |-> st]
        ELSE [status |-> 201, store |-> CreateUser(st, userData.data).store]

\* lines 225-260: PATCH /users/:id, the handler
PatchUsersHandler(st, id, body) ==
    LET userData == SchemaParse(body, UserKeys, {})
        existingUser == GetUser(st, id)
    IN  IF ~existingUser.found THEN [status |-> 404, store |-> st]
        ELSE IF /\ TruthyString(userData.data, "username")
                /\ userData.data.username # existingUser.value.username
                /\ GetUserByUsername(st, userData.data.username).found
        THEN [status |-> 409, store |-> st]
        ELSE [status |-> 200, store |-> UpdateUser(st, id, userData.data).store]

\* lines 262-286: DELETE /users/:id, the handler
DeleteUsersHandler(st, id, sessionUserId) ==
    IF ~GetUser(st, id).found THEN [status |-> 404, store |-> st]
    ELSE IF id = sessionUserId THEN [status |-> 400, store |-> st]
    ELSE [status |-> 200, store |-> DeleteUser(st, id).store]

\* the ids of the creates between two stores
Issued(st) ==
    [users |-> issued.users \cup (DOMAIN st.users \ DOMAIN store.users),
     departments |-> issued.departments
                        \cup (DOMAIN st.departments \ DOMAIN store.departments),
     resources |-> issued.resources
                      \cup (DOMAIN st.resources \ DOMAIN store.resources),
     pdfs |-> issued.pdfs \cup (DOMAIN st.pdfs \ DOMAIN store.pdfs)]

\* a route without upload: the chain of middlewares, then the handler
Route(route, s, roleCheck, res) ==
    LET guard == Guarded(store, sessions[s], roleCheck)
    IN  /\ IF guard.status # 0
           THEN Answered(route, s, guard.status, store, issued)
           ELSE Answered(route, s, res.status, res.store, Issued(res.store))
        /\ UNCHANGED <<uploadVars, sessions, reqSession, reqUser>>

PostUsers(s, body) ==
    Route("POST /users", s, "isAdmin", PostUsersHandler(store, body))

PatchUsers(s, id, body) ==
    Route("PATCH /users/:id", s, "isAdmin", PatchUsersHandler(store, id, body))

DeleteUsers(s, id) ==
    Route("DELETE /users/:id", s, "isAdmin",
          DeleteUsersHandler(store, id, sessions[s]))

\* departments.some(d => d.name.toLowerCase() === name.toLowerCase()), over
\* the departments whose id field is not "except" (0: none is excepted)
SomeDepartment(st, key, value, except) ==
    \E k \in DOMAIN st.departments :
       /\ st.departments[k].id # except
       /\ ToLowerCase(st.departments[k][key]) = ToLowerCase(value)

\* lines 313-338: POST /departments, the handler
PostDepartmentsHandler(st, body) ==
    LET departmentData == SchemaParse(body, DepartmentKeys, DepartmentKeys)
    IN  IF ~departmentData.ok THEN [status |-> 400, store |-> st]
        ELSE IF SomeDepartment(st, "name", departmentData.data.name, 0)
        THEN [status |-> 409, store |-> st]
        ELSE IF SomeDepartment(st, "slug", departmentData.data.slug, 0)
        THEN [status |-> 409, store |-> st]
        ELSE [status |-> 201,
              store |-> CreateDepartment(st, departmentData.data).store]

\* lines 340-389: PATCH /departments/:id, the handler
PatchDepartmentsHandler(st, id, body) ==
    LET departmentData == SchemaParse(body, DepartmentKeys, {}).data
        existingDepartment == GetDepartment(st, id)
    IN  IF ~existingDepartment.found THEN [status |-> 404, store |-> st]
        ELSE IF /\ TruthyString(departmentData, "name")
                /\ departmentData.name # existingDepartment.value.name
                /\ SomeDepartment(st, "name", departmentData.name, id)
        THEN [status |-> 409, store |-> st]
        ELSE IF /\ TruthyString(departmentData, "slug")
                /\ departmentData.slug # existingDepartment.value.slug
                /\ SomeDepartment(st, "slug", departmentData.slug, id)
        THEN [status |-> 409, store |-> st]
        ELSE [status |-> 200,
              store |-> UpdateDepartment(st, id, departmentData).store]

\* lines 391-410: DELETE /departments/:id, the handler
DeleteDepartmentsHandler(st, id) ==
    IF ~GetDepartment(st, id).found THEN [status |-> 404, store |-> st]
    ELSE LET res == DeleteDepartment(st, id)
         IN  IF ~res.value THEN [status |-> 404, store |-> res.store]
             ELSE [status |-> 200, store |-> res.store]

\* lines 431-452: POST /resources, the handler
PostResourcesHandler(st, user, body) ==
    LET resourceData ==
           SchemaParse(Spread(body, [createdById |-> user.value.id]),
                       ResourceKeys, ResourceKeys)
    IN  IF ~resourceData.ok THEN [status |-> 400, store |-> st]
        ELSE IF ~GetDepartment(st, resourceData.data.departmentId).found
        THEN [status |-> 404, store |-> st]
        ELSE [status |-> 201,
              store |-> CreateResource(st, resourceData.data).store]

\* lines 454-488: PATCH /resources/:id, the handler
PatchResourcesHandler(st, id, body) ==
    LET resourceData == SchemaParse(body, ResourceKeys, {}).data
        existingResource == GetResource(st, id)
    IN  IF ~existingResource.found THEN [status |-> 404, store |-> st]
        ELSE IF /\ TruthyNumber(resourceData, "departmentId")
                /\ resourceData.departmentId # existingResource.value.departmentId
                /\ ~GetDepartment(st, resourceData.departmentId).found
        THEN [status |-> 404, store |-> st]
        ELSE [status |-> 200,
              store |-> UpdateResource(st, id, resourceData).store]

\* lines 490-509: DELETE /resources/:id, the handler
DeleteResourcesHandler(st, id) ==
    IF ~GetResource(st, id).found THEN [status |-> 404, store |-> st]
    ELSE [status |-> 200, store |-> DeleteResource(st, id).store]

\* the session's user as the chain of middlewares hands it to the handler
ReqUser(s) == IsAuthenticated(store, sessions[s]).user

PostDepartments(s, body) ==
    Route("POST /departments", s, "isAdmin", PostDepartmentsHandler(store, body))

PatchDepartments(s, id, body) ==
    Route("PATCH /departments/:id", s, "isAdmin",
          PatchDepartmentsHandler(store, id, body))

DeleteDepartments(s, id) ==
    Route("DELETE /departments/:id", s, "isAdmin",
          DeleteDepartmentsHandler(store, id))

PostResources(s, body) ==
    Route("POST /resources", s, "isAdminOrSemiAdmin",
          IF ReqUser(s).found THEN PostResourcesHandler(store, ReqUser(s), body)
          ELSE [status |-> 0, store |-> store])

PatchResources(s, id, body) ==
    Route("PATCH /resources/:id", s, "isAdminOrSemiAdmin",
          PatchResourcesHandler(store, id, body))

DeleteResources(s, id) ==
    Route("DELETE /resources/:id", s, "isAdminOrSemiAdmin",
          DeleteResourcesHandler(store, id))

\* lines 593-618: DELETE /pdfs/:id; the file of the record is unlinked when
\* it exists
DeletePdfs(s, id) ==
    LET guard == Guarded(store, sessions[s], "isAdminOrSemiAdmin")
        pdf == GetPdf(store, id)
        filePath == PathJoin(UploadsDir, pdf.value.filename)
    IN  /\ IF guard.status # 0
           THEN /\ Answered("DELETE /pdfs/:id", s, guard.status, store, issued)
                /\ UNCHANGED uploads
           ELSE IF ~pdf.found
           THEN /\ Answered("DELETE /pdfs/:id", s, 404, store, issued)
                /\ UNCHANGED uploads
           ELSE /\ uploads' = MapDelete(uploads, filePath)
                /\ Answered("DELETE /pdfs/:id", s, 200,
                            DeletePdf(store, id).store, issued)
        /\ UNCHANGED <<sent, contentType, wire, data, pc, reqBody, reqFiles,
                       responses, nextCalls, sessions, reqSession, reqUser>>

\* parseInt(s): leading white space, an optional sign, then the longest run
\* of decimal digits; NaN when there is no digit there
RECURSIVE DigitsValue(_, _, _)
DigitsValue(s, from, to) ==
    IF to < from THEN 0
    ELSE 10 * DigitsValue(s, from, to - 1) + (s[to] - 48)

ParseInt(s) ==
    LET first == Min({i \in 1..Len(s) : s[i] \notin WhiteSpace} \cup {Len(s) + 1})
        signed == first <= Len(s) /\ s[first] \in {43, 45}
        from == IF signed THEN first + 1 ELSE first
        run == {j \in from..Len(s) : \A k \in from..j : s[k] \in 48..57}
    IN  IF run = {} THEN [nan |-> TRUE]
        ELSE [nan |-> FALSE,
              value |-> IF signed /\ s[first] = 45
                        THEN 0 - DigitsValue(s, from, Max(run))
                        ELSE DigitsValue(s, from, Max(run))]

NameDepartmentId == <<100, 101, 112, 97, 114, 116, 109, 101, 110, 116, 73, 100>>
    \* "departmentId"
NameName == <<110, 97, 109, 101>>                          \* "name"
NameDescription == <<100, 101, 115, 99, 114, 105, 112, 116, 105, 111, 110>>
    \* "description"

\* lines 530-568: POST /pdfs, the handler.  files holds at most one file in
\* the modelled requests, so Object.values(req.files)[0] is that file.
PostPdfsHandler(st, user, body, files) ==
    IF DOMAIN files = {} THEN [status |-> 400, store |-> st]
    ELSE IF ~TruthyString(body, NameDepartmentId)
    THEN [status |-> 400, store |-> st]
    ELSE IF ~TruthyString(body, NameName) THEN [status |-> 400, store |-> st]
    ELSE LET file == files[CHOOSE k \in DOMAIN files : TRUE]
             departmentId == ParseInt(body[NameDepartmentId])
         IN  IF departmentId.nan \/ ~GetDepartment(st, departmentId.value).found
             THEN [status |-> 404, store |-> st]
             ELSE [status |-> 201,
                   store |-> CreatePdf(st,
                      [name |-> body[NameName],
                       description |-> OrElse(body, NameDescription, Null),
                       filename |-> file.filename,
                       originalFilename |-> file.originalFilename,
                       size |-> file.size,
                       departmentId |-> departmentId.value,
                       uploadedById |-> user.value.id]).store]

\* the chain of POST /pdfs answered without counting as a call of the run
AnsweredUpload(r, status) ==
    lastCall' = [op |-> "POST /pdfs", session |-> reqSession[r],
                 status |-> status, n |-> lastCall.n]

\* line 530, up to the listeners: isAuthenticated, isAdminOrSemiAdmin, then
\* the synchronous part of uploadMiddleware; a request that is not multipart
\* reaches the handler at once, without req.files
PostPdfsArrive(r) ==
    /\ pc[r] = "start"
    /\ LET guard == Guarded(store, sessions[reqSession[r]], "isAdminOrSemiAdmin")
       IN  IF guard.status # 0
           THEN /\ pc' = [pc EXCEPT ![r] = "rejected"]
                /\ AnsweredUpload(r, guard.status)
                /\ UNCHANGED <<sent, contentType, wire, data, reqBody, reqFiles,
                               responses, nextCalls, uploads, reqUser>>
           ELSE /\ UploadMiddleware(r)
                /\ reqUser' = [reqUser EXCEPT ![r] = guard.user]
                /\ IF pc'[r] = "passed"
                   THEN AnsweredUpload(r, 400)
                   ELSE UNCHANGED lastCall
    /\ UNCHANGED <<store, sessions, reqSession, issued>>

\* lines 91-152 and, when next() is called, lines 530-568
PostPdfsEnd(r) ==
    /\ OnEnd(r)
    /\ IF pc'[r] = "passed"
       THEN LET res == PostPdfsHandler(store, reqUser[r], reqBody'[r].value,
                                       reqFiles'[r].value)
            IN  /\ store' = res.store
                /\ AnsweredUpload(r, res.status)
                /\ issued' = Issued(res.store)
       ELSE /\ AnsweredUpload(r, 400)
            /\ UNCHANGED <<store, issued>>
    /\ UNCHANGED <<sessions, reqSession, reqUser>>

(***************************************************************************)
(* The requests of a run of the API.                                       *)
(***************************************************************************)
LowerTudorCh == ToLowerCase(TudorCh)
WrongPassword == "examen"

LoginOptions ==
    {<<TudorCh, "Examen">>, <<IrinaR, "Examen">>, <<TudorCh, WrongPassword>>}

\* the bodies of POST /users: a new user, a username that differs from an
\* existing one by case only, an empty username, a body without username
PostUserBodies ==
    {[username |-> NewName, password |-> "Examen", role |-> RoleSemiAdmin,
      status |-> StatusActive],
     [username |-> LowerTudorCh, password |-> "Examen", role |-> RoleUser,
      status |-> StatusActive],
     [username |-> <<>>, password |-> "Examen", role |-> RoleUser,
      status |-> StatusActive],
     [password |-> "Examen"]}

PatchUserBodies ==
    {[role |-> RoleUser], [role |-> RoleSemiAdmin], [status |-> StatusDisabled],
     [username |-> LowerTudorCh], [username |-> <<>>]}

PostDepartmentBodies ==
    {[name |-> NewName, slug |-> NewSlug, icon |-> "Heart", color |-> "#ef4444"],
     [name |-> Cardiologie, slug |-> NewSlug, icon |-> "Heart",
      color |-> "#ef4444"]}

PatchDepartmentBodies == {[name |-> NewName], [slug |-> Cardiologie]}

PostResourceBodies ==
    {[title |-> "Nou", url |-> "https://example.com/nou", departmentId |-> d] :
        d \in {0, 2, 99}}

PatchResourceBodies ==
    {[departmentId |-> d] : d \in {0, 2, 99}} \cup {[title |-> "Nou"]}

\* the ids of the paths: two seeded records, and the next id of the kind
PathIds(counter) == {1, 2, counter}

\* the uploads of a run: a document for department 2, a form without a file,
\* and a request that is not multipart
UploadForm(departmentId, withFile) ==
    [parts |-> <<FieldPart(NameDepartmentId, departmentId),
                 FieldPart(NameName, TextA)>>
                 \o (IF withFile THEN <<FilePart(NameFile, DocPdf, TextA)>>
                     ELSE <<>>),
     finalCRLF |-> TRUE]

ApiUploads ==
    {<<UploadForm(<<50>>, TRUE), ContentTypeBare>>,
     <<UploadForm(<<50>>, FALSE), ContentTypeBare>>,
     <<UploadForm(<<50>>, TRUE), ContentTypeJson>>}

\* the server after registerRoutes, one upload about to arrive
InitApi == InitFrom({1}, ApiUploads)

NextApi ==
    \/ \E s \in Sessions, login \in LoginOptions :
          PostLogin(s, login[1], login[2])
    \/ \E s \in Sessions : PostLogout(s)
    \/ \E s \in Sessions, body \in PostUserBodies : PostUsers(s, body)
    \/ \E s \in Sessions, id \in PathIds(store.userId), body \in PatchUserBodies :
          PatchUsers(s, id, body)
    \/ \E s \in Sessions, id \in PathIds(store.userId) : DeleteUsers(s, id)
    \/ \E s \in Sessions, body \in PostDepartmentBodies : PostDepartments(s, body)
    \/ \E s \in Sessions, id \in PathIds(store.departmentId),
          body \in PatchDepartmentBodies : PatchDepartments(s, id, body)
    \/ \E s \in Sessions, id \in PathIds(store.departmentId) :
          DeleteDepartments(s, id)
    \/ \E s \in Sessions, body \in PostResourceBodies : PostResources(s, body)
    \/ \E s \in Sessions, id \in PathIds(store.resourceId),
          body \in PatchResourceBodies : PatchResources(s, id, body)
    \/ \E s \in Sessions, id \in PathIds(store.resourceId) : DeleteResources(s, id)
    \/ \E s \in Sessions, id \in PathIds(store.pdfId) : DeletePdfs(s, id)
    \/ \E r \in Requests : PostPdfsArrive(r)
    \/ \E r \in Requests : OnData(r) /\ UNCHANGED storeVars
    \/ \E r \in Requests : PostPdfsEnd(r)

SpecApi == InitApi /\ [][NextApi]_vars

(***************************************************************************)
(* Vocabulary of the properties.                                           *)
(***************************************************************************)
IsMultipart(r) == Includes(contentType[r], MultipartFormData)
HasBoundaryParam(r) == Includes(contentType[r], BoundaryEq)

\* the 'end' handler of r has run
Ended(r) == pc[r] \in {"passed", "caught"} /\ IsMultipart(r)

\* the decoder of r handed its mappings to the next handler
HandedOver(r) == pc[r] = "passed" /\ reqBody[r].set /\ reqFiles[r].set

\* the whole body of r has been appended to data and 'end' has not run yet
ReadyToDecode(r) == pc[r] = "receiving" /\ Len(wire[r]) = 0

FieldIdx(form) == {i \in DOMAIN form.parts : form.parts[i].kind = "field"}
FileIdx(form) == {i \in DOMAIN form.parts : form.parts[i].kind = "file"}
OtherIdx(form) == {i \in DOMAIN form.parts : form.parts[i].kind = "other"}

\* a form of field and file parts only, no two of which share a name
\* attribute and no two file parts of which share a filename
WellFormedDistinct(form) ==
    /\ OtherIdx(form) = {}
    /\ \A i, j \in DOMAIN form.parts :
          i # j => /\ form.parts[i].name # form.parts[j].name
                   /\ (i \in FileIdx(form) /\ j \in FileIdx(form))
                         => form.parts[i].filename # form.parts[j].filename

\* the bytes found in the uploads directory
StoredPayloads == {uploads[f] : f \in DOMAIN uploads}

(***************************************************************************)
(* C1.  For a well-formed body of N field parts and M file parts with      *)
(* pairwise distinct names and filenames, the decoder hands over exactly N *)
(* fields and M files, every field value and every persisted payload being *)
(* the part's content byte for byte, whatever the content is.              *)
(***************************************************************************)
C1_ByteForByte ==
    \A r \in Requests :
       (HandedOver(r) /\ WellFormedDistinct(sent[r])) =>
          LET parts == sent[r].parts
              fields == reqBody[r].value
              files == reqFiles[r].value
          IN  /\ Cardinality(DOMAIN fields) = Cardinality(FieldIdx(sent[r]))
              /\ Cardinality(DOMAIN files) = Cardinality(FileIdx(sent[r]))
              /\ \A i \in FieldIdx(sent[r]) :
                    /\ parts[i].name \in DOMAIN fields
                    /\ fields[parts[i].name] = parts[i].content
              /\ \A i \in FileIdx(sent[r]) :
                    /\ parts[i].filename \in DOMAIN files
                    /\ files[parts[i].filename].path \in DOMAIN uploads
                    /\ uploads[files[parts[i].filename].path] = parts[i].content

(***************************************************************************)
(* C2.  When the Content-Type is multipart/form-data without a boundary=   *)
(* parameter, the step of the 'end' handler writes no file, leaves         *)
(* req.body and req.files unassigned, does not call next() and sends one   *)
(* error response.                                                         *)
(***************************************************************************)
C2_MissingBoundaryFails ==
    [][\A r \in Requests :
          (pc[r] = "receiving" /\ pc'[r] # "receiving" /\ ~HasBoundaryParam(r)) =>
             /\ pc'[r] = "caught"
             /\ uploads' = uploads
             /\ reqBody'[r] = Unassigned
             /\ reqFiles'[r] = Unassigned
             /\ nextCalls'[r] = 0
             /\ responses'[r] = <<400>>]_vars

\* a body with a file part was sent without a boundary parameter and refused
C2_Witness ==
    \E r \in Requests :
       /\ pc[r] = "caught"
       /\ contentType[r] = ContentTypeNoBoundary
       /\ FileIdx(sent[r]) # {}
       /\ Len(data[r]) > 0
       /\ responses[r] = <<400>>

(***************************************************************************)
(* C3.  When the try block throws, req.body and req.files stay unassigned, *)
(* next() is not called and exactly one error response is sent; when it    *)
(* does not throw, next() is called once and no response is sent here.     *)
(***************************************************************************)
C3_AbortOnThrow ==
    \A r \in Requests :
       /\ pc[r] = "caught" =>
             /\ reqBody[r] = Unassigned
             /\ reqFiles[r] = Unassigned
             /\ nextCalls[r] = 0
             /\ responses[r] = <<400>>
       /\ pc[r] = "passed" =>
             /\ nextCalls[r] = 1
             /\ responses[r] = <<>>

\* the second write of a body with two file parts failed: one file is on
\* disk, and nothing was handed over
C3_Witness ==
    \E r \in Requests :
       /\ pc[r] = "caught"
       /\ HasBoundaryParam(r)
       /\ Cardinality(FileIdx(sent[r])) = 2
       /\ Cardinality(DOMAIN uploads) = 1
       /\ reqFiles[r] = Unassigned

(***************************************************************************)
(* C4.  Every part that reaches line 108 is cut at its FIRST blank line:   *)
(* the header block holds no blank line and header, blank line and body    *)
(* block make up the part again; so a file part whose payload holds blank  *)
(* lines is stored with its payload intact.                                *)
(***************************************************************************)
C4_SplitOnFirst ==
    \A r \in Requests :
       (ReadyToDecode(r) /\ ~NoBoundary(ExtractBoundary(contentType[r]))) =>
          LET parts == SplitParts(data[r], ExtractBoundary(contentType[r]))
          IN  \A i \in DOMAIN parts :
                 Includes(parts[i], CRLFCRLF) =>
                    LET pieces == Split(parts[i], CRLFCRLF)
                    IN  /\ ~Includes(HeaderStr(pieces), CRLFCRLF)
                        /\ parts[i] = HeaderStr(pieces) \o CRLFCRLF
                                         \o BodyContent(pieces)

C4_PayloadIntact ==
    /\ C4_SplitOnFirst
    /\ \A r \in Requests :
          HandedOver(r) =>
             \A i \in FileIdx(sent[r]) :
                Includes(sent[r].parts[i].content, CRLFCRLF) =>
                   sent[r].parts[i].content \in StoredPayloads

(***************************************************************************)
(* C5.  When several field parts carry the same name, the fields mapping   *)
(* holds the value of the last of them in body order.                      *)
(***************************************************************************)
C5_LastFieldWins ==
    \A r \in Requests :
       HandedOver(r) =>
          \A i \in FieldIdx(sent[r]) :
             LET parts == sent[r].parts
                 same == {j \in FieldIdx(sent[r]) : parts[j].name = parts[i].name}
             IN  Cardinality(same) > 1 =>
                    /\ parts[i].name \in DOMAIN reqBody[r].value
                    /\ reqBody[r].value[parts[i].name] = parts[Max(same)].content

(***************************************************************************)
(* C6.  The segment before the first delimiter and the segment after the   *)
(* closing delimiter (with or without a final CRLF) add no entry: decoding *)
(* gives what the segments between them alone give, and the mappings       *)
(* handed over have no key that is not a name or filename that was sent.   *)
(***************************************************************************)
C6_NoSpuriousPart ==
    \A r \in Requests :
       /\ (ReadyToDecode(r) /\ ~NoBoundary(ExtractBoundary(contentType[r]))) =>
             LET segments == SplitParts(data[r], ExtractBoundary(contentType[r]))
                 body == ReadBody(data[r], contentType[r])
                 inner == [body EXCEPT !.parts = SubSeq(@, 2, Len(@) - 1)]
                 n == NumWrites(body)
             IN  /\ Len(segments) = Len(sent[r].parts) + 2
                 /\ segments[1] = <<>>
                 /\ segments[Len(segments)] =
                       DashDash \o (IF sent[r].finalCRLF THEN CRLF ELSE <<>>)
                 /\ \A rnd \in Draws(uploads, n) :
                       Run(body, uploads, rnd, 0) = Run(inner, uploads, rnd, 0)
       /\ HandedOver(r) =>
             /\ DOMAIN reqBody[r].value \subseteq
                   {sent[r].parts[i].name : i \in FieldIdx(sent[r])}
             /\ DOMAIN reqFiles[r].value \subseteq
                   {sent[r].parts[i].filename : i \in FileIdx(sent[r])}

\* a body of one field whose closing delimiter has no CRLF after it was
\* decoded to that one field
C6_Witness ==
    \E r \in Requests :
       /\ HandedOver(r)
       /\ ~sent[r].finalCRLF
       /\ sent[r].parts = <<FieldPart(NameX, TextA)>>
       /\ reqBody[r].value = (NameX :> TextA)
       /\ reqFiles[r].value = <<>>

(***************************************************************************)
(* C7.  Two decodings of the same accumulated body under the same          *)
(* Content-Type, with any two draws of random names, agree on whether they *)
(* fail, on the fields mapping, on the keys of the files mapping and, per  *)
(* key, on the original filename, the size and the bytes persisted; only   *)
(* the storage name and path may differ.                                   *)
(***************************************************************************)
C7_SameUpToStorageName ==
    \A r \in Requests :
       ReadyToDecode(r) =>
          LET body == ReadBody(data[r], contentType[r])
              n == NumWrites(body)
          IN  \A rnd1, rnd2 \in Draws(uploads, n) :
                 LET a == Run(body, uploads, rnd1, 0)
                     b == Run(body, uploads, rnd2, 0)
                 IN  /\ a.threw = b.threw
                     /\ a.fields = b.fields
                     /\ DOMAIN a.files = DOMAIN b.files
                     /\ \A k \in DOMAIN a.files :
                           /\ a.files[k].originalFilename = b.files[k].originalFilename
                           /\ a.files[k].size = b.files[k].size
                           /\ a.disk[a.files[k].path] = b.disk[b.files[k].path]
                     /\ {a.disk[f] : f \in DOMAIN a.disk}
                           = {b.disk[f] : f \in DOMAIN b.disk}

\* the one file of a body was stored under the second name of the pool, not
\* the first: the draw is a choice
C7_Witness ==
    \E r \in Requests :
       /\ HandedOver(r)
       /\ sent[r].parts = <<FilePart(NameFile, DocPdf, TextA)>>
       /\ reqFiles[r].value[DocPdf].filename = StorageName(HexName(2), DocPdf)
       /\ uploads[PathJoin(UploadsDir, StorageName(HexName(2), DocPdf))] = TextA

(***************************************************************************)
(* C7, over the bytes of the body.  Decoding the same body (the bytes the  *)
(* client sent) under the same Content-Type yields, whenever the mappings  *)
(* are handed over, the fields, the file keys and per key the original     *)
(* filename, the size and the persisted bytes that the decoding of the     *)
(* body received as one chunk yields; only the storage name and path may   *)
(* differ.  Receiving the body as one chunk is one of the decodings, so a  *)
(* state that differs from it shows two decodings of one body that differ. *)
(***************************************************************************)
C7_SameBodySameResult ==
    \A r \in Requests :
       HandedOver(r) =>
          LET body == ReadBody(Utf8Decode(EncodeForm(sent[r])), contentType[r])
              n == NumWrites(body)
              rnd == CHOOSE d \in Draws(<<>>, n) : TRUE
              one == Run(body, <<>>, rnd, 0)
              fields == reqBody[r].value
              files == reqFiles[r].value
          IN  /\ fields = one.fields
              /\ DOMAIN files = DOMAIN one.files
              /\ \A k \in DOMAIN files :
                    /\ files[k].originalFilename = one.files[k].originalFilename
                    /\ files[k].size = one.files[k].size
                    /\ uploads[files[k].path] = one.disk[one.files[k].path]

(***************************************************************************)
(* C8.  A part with neither a filename nor a name attribute adds nothing   *)
(* and raises no error: decoding the body gives what decoding it with that *)
(* part cut out gives, and a body with such a part and no file to write is *)
(* always handed to the next handler.                                      *)
(***************************************************************************)
\* the part without attributes, as it appears in data
OtherSegment == EncodePart(OtherPart(TextA))

\* data with every such part cut out
WithoutOther(str) == Join(Split(str, OtherSegment), <<>>)

C8_MalformedPartIgnored ==
    \A r \in Requests :
       /\ (/\ ReadyToDecode(r)
           /\ ~NoBoundary(ExtractBoundary(contentType[r]))
           /\ OtherIdx(sent[r]) # {}) =>
             LET body == ReadBody(data[r], contentType[r])
                 rest == ReadBody(WithoutOther(data[r]), contentType[r])
                 n == NumWrites(body)
             IN  /\ Includes(data[r], OtherSegment)
                 /\ Len(rest.parts) = Len(body.parts) - Cardinality(OtherIdx(sent[r]))
                 /\ \A rnd \in Draws(uploads, n) :
                       /\ ~Run(body, uploads, rnd, 0).threw
                       /\ Run(body, uploads, rnd, 0) = Run(rest, uploads, rnd, 0)
       /\ (/\ Ended(r)
           /\ ~NoBoundary(ExtractBoundary(contentType[r]))
           /\ OtherIdx(sent[r]) # {}
           /\ FileIdx(sent[r]) = {}) =>
             /\ HandedOver(r)
             /\ nextCalls[r] = 1
             /\ responses[r] = <<>>

\* a part without attributes came before a field, and the field was decoded
C8_Witness ==
    \E r \in Requests :
       /\ HandedOver(r)
       /\ sent[r].parts = <<OtherPart(TextA), FieldPart(NameX, TextB)>>
       /\ reqBody[r].value = (NameX :> TextB)
       /\ reqFiles[r].value = <<>>
       /\ nextCalls[r] = 1

(***************************************************************************)
(* C9.  Every file part has an entry in the files mapping under its        *)
(* original filename, carrying a generated storage name that ends in the   *)
(* filename's extension, the original filename, the storage path and a     *)
(* size that is the length of the file found at that path when the         *)
(* mappings are handed over.                                               *)
(***************************************************************************)
C9_EveryFileRecorded ==
    \A r \in Requests :
       HandedOver(r) =>
          \A i \in FileIdx(sent[r]) :
             LET key == sent[r].parts[i].filename
                 files == reqFiles[r].value
             IN  /\ key \in DOMAIN files
                 /\ files[key].originalFilename = key
                 /\ \E hex \in RandHex : files[key].filename = hex \o Extname(key)
                 /\ files[key].path = PathJoin(UploadsDir, files[key].filename)
                 /\ files[key].path \in DOMAIN uploads
                 /\ Len(uploads[files[key].path]) = files[key].size

Segment(p) == CRLF \o PartHeader(p) \o CRLFCRLF \o p.content \o CRLF

\* the parts of a kind that line 106 lets through
Kept(form, kind) ==
    {i \in DOMAIN form.parts :
        /\ form.parts[i].kind = kind
        /\ ~Includes(Segment(form.parts[i]), DashDashCRLF)}

IsAscii(bytes) == \A i \in DOMAIN bytes : bytes[i] < 128

RECURSIVE Accumulations(_)
Accumulations(w) ==
    IF Len(w) = 0 THEN {<<>>}
    ELSE UNION {{Utf8Decode(SubSeq(w, 1, n)) \o rest :
                    rest \in Accumulations(From(w, n + 1))} :
                n \in ChunkLens(w)}

\* the paths recorded in the files mapping handed over by r
PathsOf(r) == {reqFiles[r].value[k].path : k \in DOMAIN reqFiles[r].value}

C11_NoInterference ==
    \A r \in Requests :
       /\ (pc[r] # "start" /\ IsMultipart(r) /\ Len(wire[r]) = 0)
             => data[r] \in Accumulations(EncodeForm(sent[r]))
       /\ HandedOver(r) =>
             LET body == ReadBody(data[r], contentType[r])
                 n == NumWrites(body)
                 rnd == CHOOSE d \in Draws(<<>>, n) : TRUE
                 alone == Run(body, <<>>, rnd, 0)
                 files == reqFiles[r].value
             IN  /\ reqBody[r].value = alone.fields
                 /\ DOMAIN files = DOMAIN alone.files
                 /\ \A k \in DOMAIN files :
                       /\ files[k].originalFilename = alone.files[k].originalFilename
                       /\ files[k].size = alone.files[k].size
                       /\ files[k].path \in DOMAIN uploads
                       /\ uploads[files[k].path] = alone.disk[alone.files[k].path]
                 /\ Cardinality(PathsOf(r)) = Cardinality(DOMAIN files)
                 /\ \A q \in Requests \ {r} :
                       HandedOver(q) => PathsOf(q) \cap PathsOf(r) = {}

\* both requests uploaded a file called doc.pdf with different payloads, both
\* were handed over, and each payload is on disk under its own name
C11_Witness ==
    /\ Requests = {1, 2}
    /\ HandedOver(1) /\ HandedOver(2)
    /\ sent[1].parts = <<FilePart(NameFile, DocPdf, TextA)>>
    /\ sent[2].parts = <<FilePart(NameX, DocPdf, TextBlankLine)>>
    /\ reqFiles[2].value[DocPdf].filename = StorageName(HexName(1), DocPdf)
    /\ uploads[reqFiles[1].value[DocPdf].path] = TextA
    /\ uploads[reqFiles[2].value[DocPdf].path] = TextBlankLine


(***************************************************************************)
(* C12.  For every field part and file part the loop processes, the value  *)
(* or payload it stores is the body block with exactly one trailing CRLF   *)
(* removed from its end and nothing else removed: the stored content       *)
(* followed by CRLF is the body block.                                     *)
(***************************************************************************)
\* the parts of data[r] after the split of line 99
SegmentsOf(r) == SplitParts(data[r], ExtractBoundary(contentType[r]))

\* the parts of data[r] the loop stores something for
Processed(r) ==
    {i \in DOMAIN SegmentsOf(r) :
        ReadPart(SegmentsOf(r)[i]).kind \in {"field", "file"}}

\* the body block of a part, line 109
BodyBlock(part) == BodyContent(Split(part, CRLFCRLF))

C12_OneTerminatorStripped ==
    \A r \in Requests :
       HandedOver(r) =>
          \A i \in Processed(r) :
             LET p == ReadPart(SegmentsOf(r)[i])
             IN  /\ p.content \o CRLF = BodyBlock(SegmentsOf(r)[i])
                 /\ p.kind = "file" => BufferFromBinary(p.content) \in StoredPayloads
                 /\ p.kind = "field" => p.name \in DOMAIN reqBody[r].value


(***************************************************************************)
(* C14.  Every call of deleteDepartment(id) leaves no resource and no pdf  *)
(* with departmentId = id and no department under id; the departments,     *)
(* resources and pdfs of the other departments, the users and the four     *)
(* counters are as before the call; and it returns true exactly when the   *)
(* department existed.                                                     *)
(***************************************************************************)
\* the step is a call of the method op
IsCall(op) == lastCall'.n = lastCall.n + 1 /\ lastCall'.op = op

\* the records of a map that belong to another department than id
OfOtherDepartments(map, id) ==
    [k \in {j \in DOMAIN map : map[j].departmentId # id} |-> map[k]]

Counters(st) == <<st.userId, st.departmentId, st.resourceId, st.pdfId>>

CreateOps == {"createUser", "createDepartment", "createResource", "createPdf"}

IsCreate == lastCall'.n = lastCall.n + 1 /\ lastCall'.op \in CreateOps

C16_CreatesAreFresh ==
    [][IsCreate =>
          \A j \in issued[lastCall'.kind] : lastCall'.value.id > j]_vars

\* every record of the map has its key in its id field
IdIsKey(map) == \A k \in DOMAIN map : map[k].id = k

(***************************************************************************)
(* C16.  Across any sequence of create, update and delete calls, every     *)
(* create returns an id strictly greater than every id returned before for *)
(* its kind, and after every call each stored record's id field equals its *)
(* map key.                                                                *)
(***************************************************************************)
C16_FreshIdsAndKeys ==
    [][/\ IsCreate => \A j \in issued[lastCall'.kind] : lastCall'.value.id > j
       /\ IdIsKey(store'.users) /\ IdIsKey(store'.departments)
       /\ IdIsKey(store'.resources) /\ IdIsKey(store'.pdfs)]_vars


(***************************************************************************)
(* C13.  A step changes the store or the uploads directory only when it is *)
(* a request to a mutating endpoint whose session's userId, at the time of *)
(* the request, maps to an existing user with status active and with role  *)
(* admin (users, departments) or admin or semi-admin (resources, pdfs).    *)
(* For an upload the time of the request is its arrival, where the chain   *)
(* of middlewares takes req.user; the file is written and the record       *)
(* created when its body has ended.                                        *)
(***************************************************************************)
AdminRoutes ==
    {"POST /users", "PATCH /users/:id", "DELETE /users/:id",
     "POST /departments", "PATCH /departments/:id", "DELETE /departments/:id"}

EditorRoutes ==
    {"POST /resources", "PATCH /resources/:id", "DELETE /resources/:id",
     "DELETE /pdfs/:id"}

Editors == {RoleAdmin, RoleSemiAdmin}

RolesFor(route) == IF route \in AdminRoutes THEN {RoleAdmin} ELSE Editors

\* userId is the key of a user who is active and has one of the roles
Privileged(st, userId, roles) ==
    /\ userId \in DOMAIN st.users
    /\ st.users[userId].status = StatusActive
    /\ st.users[userId].role \in roles

C13_MutationsAreGated ==
    [][/\ (store' # store \/ uploads' # uploads) =>
             \/ /\ lastCall'.n = lastCall.n + 1
                /\ lastCall'.op \in AdminRoutes \cup EditorRoutes
                /\ Privileged(store, sessions[lastCall'.session],
                              RolesFor(lastCall'.op))
             \/ \E r \in Requests :
                   /\ pc[r] = "receiving" /\ pc'[r] # "receiving"
                   /\ reqUser[r].found
                   /\ reqUser[r].value.status = StatusActive
                   /\ reqUser[r].value.role \in Editors
       /\ \A r \in Requests :
             (pc[r] = "start" /\ pc'[r] \in {"receiving", "passed"}) =>
                /\ Privileged(store, sessions[reqSession[r]], Editors)
                /\ reqUser'[r].value = store.users[sessions[reqSession[r]]]]_vars

\* the admin of session 1 was demoted after login, and the next mutation of
\* the session was refused
C13_Witness ==
    /\ sessions[1] = 1
    /\ store.users[1].role = RoleUser
    /\ store.users[1].status = StatusActive
    /\ lastCall.op = "POST /resources"
    /\ lastCall.session = 1
    /\ lastCall.status = 403


(***************************************************************************)
(* C15.  After any sequence of requests, every resource and every pdf has  *)
(* a departmentId that is the key of a department in the store.            *)
(***************************************************************************)
C15_DepartmentsExist ==
    /\ \A k \in DOMAIN store.resources :
          store.resources[k].departmentId \in DOMAIN store.departments
    /\ \A k \in DOMAIN store.pdfs :
          store.pdfs[k].departmentId \in DOMAIN store.departments

(***************************************************************************)
(* C17.  After any sequence of requests, no two users in the store have    *)
(* usernames that are equal ignoring case.                                 *)
(***************************************************************************)
C17_UsernamesUnique ==
    \A j, k \in DOMAIN store.users :
       ToLowerCase(store.users[j].username) = ToLowerCase(store.users[k].username)
          => j = k

=============================================================================
